---- MODULE Spec2Model ----
(***************************************************************************)
(* Model of the ResumeBuilder repository:                                  *)
(*   - resume_editor_latex_generator.py: compile_tex_to_pdf, save_version, *)
(*     list_versions and the Streamlit script run;                         *)
(*   - resume_builder.py: process_resume.                                  *)
(* Optional values are sequences of length 0 (None) or 1 (Some(x)), byte   *)
(* strings are sequences of small integers, texts that are searched for a  *)
(* substring are sequences of fragments.                                   *)
(***************************************************************************)
EXTENDS Integers, Sequences, FiniteSets, TLC

VARIABLES
    installed,  \* the engines shutil.which finds on PATH
    tmpfs,      \* the temporary directories that exist: dir id -> (file name -> content)
    nextDir,    \* the next fresh name tempfile hands out
    cpc,        \* per caller: position inside compile_tex_to_pdf
    cinv,       \* per caller: the locals of its compile_tex_to_pdf invocation
    now,        \* the clock file times and datetime.now() are read from
    vdir,       \* VERSIONS_DIR: file name -> [content, mtime] ([content] for a sidecar)
    usedUids,   \* the identifiers uuid4 has handed out
    spc,        \* per session: position inside save_version
    sinv,       \* per session: the locals of its save_version invocation
    completed,  \* the save_version calls that returned, in order of return
    listed,     \* what the list_versions of the script run followed returned, or None
    got,        \* the bytes that run read for its download buttons, or None
    ntag,       \* the version_tag a filename is built for
    nuid,       \* the identifier uuid4 returned for it
    nname,      \* the filename built, or None before it is built
    ppc,        \* position inside process_resume
    pinv,       \* the locals of the process_resume invocation
    pfile,      \* final_resume.html in the temporary directory: its text, or None
    pruns,      \* the process_resume invocations begun
    mode,       \* the edit mode radio of the editor session
    session,    \* st.session_state of the editor session
    view        \* what the last script run of the editor session did and showed

compileVars == <<installed, tmpfs, nextDir, cpc, cinv>>
storeVars == <<now, vdir, usedUids, spc, sinv, completed, listed, got>>

nameVars == <<ntag, nuid, nname>>
pipeVars == <<ppc, pinv, pfile, pruns>>
editorVars == <<mode, session, view>>

vars == <<compileVars, storeVars, nameVars, pipeVars, editorVars>>

\* What the steps of one part of the program leave alone.
exceptCompile == <<storeVars, nameVars, pipeVars, editorVars>>
exceptStore == <<compileVars, nameVars, pipeVars, editorVars>>
exceptName == <<compileVars, storeVars, pipeVars, editorVars>>
exceptPipe == <<compileVars, storeVars, nameVars, editorVars>>

----------------------------------------------------------------------------
(* Values *)

None == <<>>
Some(x) == <<x>>
IsSome(o) == Len(o) = 1
Get(o) == o[1]

\* A text contains a fragment.
Contains(text, frag) == \E i \in DOMAIN text : text[i] = frag

\* The function f without the key k.
Without(f, k) == [x \in DOMAIN f \ {k} |-> f[x]]

\* The function f with key k (new or not) set to v.
With(f, k, v) == [x \in DOMAIN f \cup {k} |-> IF x = k THEN v ELSE f[x]]

----------------------------------------------------------------------------
(* compile_tex_to_pdf *)

\* Bounds of the compile model.
NumCallers == 2
MaxInvocations == 2

Callers == 1..NumCallers
TexSources == {"texA"}
PdfContents == {<<37>>, <<37, 80>>}
ProcLogs == {<<"This is TeX">>}
SubprocessErrors == {"FileNotFoundError", "UnicodeDecodeError"}

\* The names cmd[0] of the ordered preference list.
engines == <<"latexmk", "xelatex", "pdflatex">>
EngineSet == {engines[i] : i \in DOMAIN engines}

NoEngineMsg ==
    <<"No TeX engine found",
      ". Please install latexmk or xelatex/pdflatex and ensure it's on PATH.">>

\* A loop without the break: the last installed engine wins.
RECURSIVE LastInstalled(_, _)
LastInstalled(cmds, inst) ==
    IF cmds = <<>> THEN None
    ELSE LET rest == LastInstalled(Tail(cmds), inst) IN
         IF IsSome(rest) THEN rest
         ELSE IF Head(cmds) \in inst THEN Some(Head(cmds)) ELSE None

\* for cmd in engines: if shutil.which(cmd[0]): used = cmd; break
RECURSIVE FirstInstalled(_, _)
FirstInstalled(cmds, inst) ==
    IF cmds = <<>> THEN None
    ELSE IF Head(cmds) \in inst THEN Some(Head(cmds))
    ELSE FirstInstalled(Tail(cmds), inst)

\* The preference list read from its end.
UsedEngineLast(inst) == LastInstalled(engines, inst)

\* used: the first command of engines whose program is on PATH, or None.
UsedEngine(inst) == FirstInstalled(engines, inst)

NoEngineResult == [pdf |-> None, log |-> NoEngineMsg]

\* The handler missing: the exception leaves compile_tex_to_pdf.
PropagateSubprocessError(e) == [ret |-> None, exc |-> Some(e)]

\* except Exception as e: return None, f"Compilation error: {e}"
OnSubprocessError(e) ==
    [ret |-> Some([pdf |-> None, log |-> <<"Compilation error: ", e>>]), exc |-> None]

\* The success test with "or" for "and".
ProcResultOr(rc, out, files) ==
    IF rc = 0 \/ "main.pdf" \in DOMAIN files
    THEN [pdf |-> IF "main.pdf" \in DOMAIN files THEN Some(files["main.pdf"])
                  ELSE Some(<<>>),
          log |-> out]
    ELSE [pdf |-> None, log |-> out]

\* if proc.returncode == 0 and pdf_path.exists(): return pdf_path.read_bytes(), log
\* else: return None, log
ProcResult(rc, out, files) ==
    IF rc = 0 /\ "main.pdf" \in DOMAIN files
    THEN [pdf |-> Some(files["main.pdf"]), log |-> out]
    ELSE [pdf |-> None, log |-> out]

\* A directory made with mkdtemp and never removed.
KeepTempDir(fs, d) == fs

\* Leaving "with tempfile.TemporaryDirectory()": the directory and all in it go.
RemoveTempDir(fs, d) == Without(fs, d)

\* What the engine process leaves in its working directory.
EngineFiles(files, pdf) ==
    LET withLog == With(files, "main.log", "log") IN
    IF IsSome(pdf) THEN With(withLog, "main.pdf", Get(pdf)) ELSE withLog

IdleInvocation ==
    [tex |-> "", dir |-> 0, used |-> None, runs |-> <<>>, raised |-> FALSE,
     rc |-> -1, out |-> <<>>, made |-> None, ret |-> None, exc |-> None]

CompileInit ==
    /\ installed \in SUBSET EngineSet
    /\ tmpfs = <<>>
    /\ nextDir = 1
    /\ cpc = [c \in Callers |-> "idle"]
    /\ cinv = [c \in Callers |-> IdleInvocation]

\* Lines 157-160: the temporary directory is made and main.tex written.
EnterTempDir(c) ==
    /\ cpc[c] = "idle"
    /\ nextDir <= MaxInvocations
    /\ \E src \in TexSources :
         /\ tmpfs' = With(tmpfs, nextDir, [f \in {"main.tex"} |-> src])
         /\ cinv' = [cinv EXCEPT ![c] = [IdleInvocation EXCEPT !.tex = src, !.dir = nextDir]]
    /\ nextDir' = nextDir + 1
    /\ cpc' = [cpc EXCEPT ![c] = "entered"]
    /\ UNCHANGED installed
    /\ UNCHANGED exceptCompile

\* Lines 162-176: the engine is selected, or the no-engine result returned.
SelectEngine(c) ==
    /\ cpc[c] = "entered"
    /\ LET used == UsedEngine(installed) IN
         IF IsSome(used)
         THEN /\ cinv' = [cinv EXCEPT ![c].used = used]
              /\ cpc' = [cpc EXCEPT ![c] = "selected"]
         ELSE /\ cinv' = [cinv EXCEPT ![c].ret = Some(NoEngineResult)]
              /\ cpc' = [cpc EXCEPT ![c] = "exiting"]
    /\ UNCHANGED <<installed, tmpfs, nextDir>>
    /\ UNCHANGED exceptCompile

\* Lines 179-186: subprocess.run returns a completed process.
RunEngineReturns(c) ==
    /\ cpc[c] = "selected"
    /\ \E rc \in {0, 1}, out \in ProcLogs, pdf \in {None} \cup {Some(b) : b \in PdfContents} :
         /\ tmpfs' = [tmpfs EXCEPT ![cinv[c].dir] = EngineFiles(@, pdf)]
         /\ cinv' = [cinv EXCEPT ![c].runs = Append(@, Get(cinv[c].used)),
                                 ![c].rc = rc, ![c].out = out, ![c].made = pdf]
    /\ cpc' = [cpc EXCEPT ![c] = "ran"]
    /\ UNCHANGED <<installed, nextDir>>
    /\ UNCHANGED exceptCompile

\* Lines 179-186, 193-194: subprocess.run raises (the engine cannot be started, or
\* its output cannot be decoded); the engine may have left files behind.
RunEngineRaises(c) ==
    /\ cpc[c] = "selected"
    /\ \E e \in SubprocessErrors :
         LET h == OnSubprocessError(e) IN
         /\ \E pdf \in {None} \cup {Some(b) : b \in PdfContents} :
              /\ e = "FileNotFoundError" => pdf = None
              /\ tmpfs' = [tmpfs EXCEPT ![cinv[c].dir] =
                             IF e = "FileNotFoundError" THEN @ ELSE EngineFiles(@, pdf)]
              /\ cinv' = [cinv EXCEPT ![c].runs = Append(@, Get(cinv[c].used)),
                                      ![c].raised = TRUE, ![c].made = pdf,
                                      ![c].ret = h.ret, ![c].exc = h.exc]
    /\ cpc' = [cpc EXCEPT ![c] = "exiting"]
    /\ UNCHANGED <<installed, nextDir>>
    /\ UNCHANGED exceptCompile

\* Lines 187-192: the result is built, main.pdf read from the working directory.
ReturnResult(c) ==
    /\ cpc[c] = "ran"
    /\ cinv' = [cinv EXCEPT ![c].ret =
                  Some(ProcResult(cinv[c].rc, cinv[c].out, tmpfs[cinv[c].dir]))]
    /\ cpc' = [cpc EXCEPT ![c] = "exiting"]
    /\ UNCHANGED <<installed, tmpfs, nextDir>>
    /\ UNCHANGED exceptCompile

\* Line 157: the with block is left, by return or by exception.
ExitTempDir(c) ==
    /\ cpc[c] = "exiting"
    /\ tmpfs' = RemoveTempDir(tmpfs, cinv[c].dir)
    /\ cpc' = [cpc EXCEPT ![c] = "returned"]
    /\ UNCHANGED <<installed, nextDir, cinv>>
    /\ UNCHANGED exceptCompile

\* The caller takes the result; the caller may call again.
TakeResult(c) ==
    /\ cpc[c] = "returned"
    /\ cpc' = [cpc EXCEPT ![c] = "idle"]
    /\ cinv' = [cinv EXCEPT ![c] = IdleInvocation]
    /\ UNCHANGED <<installed, tmpfs, nextDir>>
    /\ UNCHANGED exceptCompile

----------------------------------------------------------------------------
(* Claims about compile_tex_to_pdf *)

InFlight(c) == cpc[c] \in {"entered", "selected", "ran", "exiting"}
Finished(c) == cpc[c] \in {"exiting", "returned"}

\* C1: when an engine was found, the invocation ends with (bytes of main.pdf, log)
\* exactly when subprocess.run returned a process with exit status 0 and main.pdf
\* exists in the working directory; in every other outcome (non-zero exit, no
\* main.pdf, subprocess.run raising) it ends with (None, log), log a non-empty text;
\* no exception reaches the caller.
C1_ResultIffExitZeroAndPdf ==
    \A c \in Callers :
        (Finished(c) /\ IsSome(cinv[c].used)) =>
            /\ cinv[c].exc = None
            /\ IsSome(cinv[c].ret)
            /\ LET r == Get(cinv[c].ret)
                   ok == ~cinv[c].raised /\ cinv[c].rc = 0 /\ IsSome(cinv[c].made)
               IN /\ IsSome(r.pdf) <=> ok
                  /\ ok => (r.pdf = cinv[c].made /\ r.log = cinv[c].out)
                  /\ (~ok /\ ~cinv[c].raised) => (r.pdf = None /\ r.log = cinv[c].out)
                  /\ cinv[c].raised =>
                        (r.pdf = None /\ Len(r.log) = 2 /\ r.log[1] = "Compilation error: ")
                  /\ Len(r.log) >= 1

\* C1 witness: an invocation returned the bytes of main.pdf after an exit status 0.
C1_Witness ==
    \E c \in Callers :
        /\ cpc[c] = "returned"
        /\ cinv[c].rc = 0
        /\ IsSome(cinv[c].ret)
        /\ IsSome(Get(cinv[c].ret).pdf)

\* C2: the invocation runs exactly one engine, the first of latexmk, xelatex,
\* pdflatex that is installed, whatever the set of installed engines; with none
\* installed it runs no subprocess, makes no main.pdf and ends with
\* (None, a message containing "No TeX engine found").
C2_FirstInstalledEngineOnly ==
    \A c \in Callers :
        /\ Len(cinv[c].runs) <= 1
        /\ cpc[c] \in {"idle", "entered", "selected"} => cinv[c].runs = <<>>
        /\ (installed # {} /\ cpc[c] \in {"ran", "exiting", "returned"}) =>
              /\ Len(cinv[c].runs) = 1
              /\ \E i \in DOMAIN engines :
                    /\ cinv[c].runs[1] = engines[i]
                    /\ engines[i] \in installed
                    /\ \A j \in 1..(i - 1) : engines[j] \notin installed
        /\ (installed = {} /\ Finished(c)) =>
              /\ cinv[c].runs = <<>>
              /\ cinv[c].made = None
              /\ cinv[c].dir \in DOMAIN tmpfs => "main.pdf" \notin DOMAIN tmpfs[cinv[c].dir]
              /\ IsSome(cinv[c].ret)
              /\ Get(cinv[c].ret).pdf = None
              /\ Contains(Get(cinv[c].ret).log, "No TeX engine found")

\* C2 witness: with xelatex and pdflatex installed and latexmk not, an invocation
\* returned after running xelatex alone.
C2_Witness ==
    \E c \in Callers :
        /\ cpc[c] = "returned"
        /\ installed = {"xelatex", "pdflatex"}
        /\ cinv[c].runs = <<"xelatex">>

\* C10: every invocation has a temporary directory of its own, which exists (with
\* main.tex in it) while the invocation runs and does not exist, with any file in
\* it, once the invocation has returned, on every exit path; returned PDF bytes
\* are the bytes of main.pdf, read while the directory existed.
C10_TempDirRemovedOnEveryPath ==
    /\ \A c \in Callers :
          /\ InFlight(c) =>
                /\ cinv[c].dir \in DOMAIN tmpfs
                /\ "main.tex" \in DOMAIN tmpfs[cinv[c].dir]
          /\ cpc[c] = "returned" => cinv[c].dir \notin DOMAIN tmpfs
          /\ (Finished(c) /\ IsSome(cinv[c].ret) /\ IsSome(Get(cinv[c].ret).pdf)) =>
                Get(cinv[c].ret).pdf = cinv[c].made
    /\ \A c1, c2 \in Callers :
          (c1 # c2 /\ cpc[c1] # "idle" /\ cpc[c2] # "idle") => cinv[c1].dir # cinv[c2].dir
    /\ DOMAIN tmpfs \subseteq {cinv[c].dir : c \in {x \in Callers : InFlight(x)}}

\* C10 witness: an invocation whose subprocess.run raised after the engine had
\* written main.pdf has returned.
C10_Witness ==
    \E c \in Callers :
        /\ cpc[c] = "returned"
        /\ cinv[c].raised
        /\ IsSome(cinv[c].made)

----------------------------------------------------------------------------
(* save_version and list_versions *)

\* Bounds of the version store model.
MaxSaves == 2
MaxClock == 1
MaxTagLen == 2

\* Two browser sessions, each running the script on its own.
Sessions == {"A", "B"}

\* The characters of tags: those str.isalnum accepts, and others.
AlnumChars == {"a", "b", "c", "1"}
Alphabet == AlnumChars \cup {"-", "_", "/", " ", "!"}

\* The tags the sessions of the store model save with: no tag, the empty tag and
\* a tag that is stripped.
StoreTags == {None, Some(<<>>), Some(<<"a", "/", "b", " ", "c", "!">>)}
PdfBytes == {<<37>>, <<37, 80>>}

UidNames == <<"u1", "u2", "u3", "u4", "u5", "u6", "u7", "u8">>
Uids == {UidNames[i] : i \in 1..MaxSaves}

Last(seq) == seq[Len(seq)]

\* An identifier derived from nothing that changes: every call returns the same.
uuid4Fixed(used) == UidNames[1]

\* uuid4(): an identifier no earlier call returned.
uuid4(used) == CHOOSE u \in Uids \ used : TRUE

\* c.isalnum()
isalnum(c) == c \in AlnumChars

\* The filter without the underscore.
KeptCharNoUnderscore(c) == isalnum(c) \/ c = "-"

\* c.isalnum() or c in ("-", "_")
KeptChar(c) == isalnum(c) \/ c \in {"-", "_"}

\* "".join(c for c in version_tag if c.isalnum() or c in ("-", "_"))
RECURSIVE safe_tag(_)
safe_tag(tag) ==
    IF tag = <<>> THEN <<>>
    ELSE (IF KeptChar(Head(tag)) THEN <<Head(tag)>> ELSE <<>>) \o safe_tag(Tail(tag))

\* if version_tag: (None and the empty string are false)
Truthy(version_tag) == IsSome(version_tag) /\ Get(version_tag) # <<>>

\* f"resume_{safe_tag}_{uid}.pdf" or f"resume_{uid}.pdf"
filename(version_tag, uid) ==
    IF Truthy(version_tag)
    THEN <<"resume_">> \o safe_tag(Get(version_tag)) \o <<"_", uid, ".pdf">>
    ELSE <<"resume_", uid, ".pdf">>

\* meta = {"filename": ..., "created": ..., "size_bytes": len(pdf_bytes)}
meta(fname, t, pdf_bytes) ==
    [filename |-> fname, created |-> t, size_bytes |-> Len(pdf_bytes)]

\* VERSIONS_DIR / f"{filename}.json"
meta_path(fname) == fname \o <<".json">>

\* VERSIONS_DIR.glob("*.pdf"), as a set
GlobPdf(dir) == {f \in DOMAIN dir : Last(f) = ".pdf"}

\* The orders in which the directory can be enumerated.
Orders(S) == {p \in [1..Cardinality(S) -> S] : {p[i] : i \in DOMAIN p} = S}

\* x put behind every element whose mtime is not smaller: a stable descending sort.
RECURSIVE InsertDesc(_, _, _)
InsertDesc(sorted, x, dir) ==
    IF sorted = <<>> THEN <<x>>
    ELSE IF dir[Head(sorted)].mtime >= dir[x].mtime
         THEN <<Head(sorted)>> \o InsertDesc(Tail(sorted), x, dir)
         ELSE <<x>> \o sorted

\* sorted(..., key=lambda x: x.stat().st_mtime, reverse=True)
RECURSIVE SortedByMtimeDesc(_, _)
SortedByMtimeDesc(seq, dir) ==
    IF seq = <<>> THEN <<>>
    ELSE InsertDesc(SortedByMtimeDesc(SubSeq(seq, 1, Len(seq) - 1), dir), Last(seq), dir)

\* The directory enumerated as it comes, not sorted.
Unsorted(seq, dir) == seq

\* The order list_versions walks the artifacts in.
ListingOrder(seq, dir) == SortedByMtimeDesc(seq, dir)

\* Lines 226-234 for one artifact: the sidecar parsed, or a record built from the
\* file's stats. A sidecar that holds no complete JSON text makes json.loads raise.
MetaFor(p, dir) ==
    IF meta_path(p) \in DOMAIN dir
    THEN dir[meta_path(p)].content
    ELSE Some([filename |-> p, created |-> dir[p].mtime, size_bytes |-> Len(dir[p].content)])

\* json.loads raises in list_versions: some sidecar holds no complete JSON text.
ListingRaises(dir) == \E p \in GlobPdf(dir) : MetaFor(p, dir) = None

\* list_versions() on the directory, enumerated in the order glob.
list_versions(dir, glob) ==
    LET ps == ListingOrder(glob, dir) IN
    IF ListingRaises(dir)
    THEN [raised |-> TRUE, items |-> <<>>]
    ELSE [raised |-> FALSE, items |-> [i \in DOMAIN ps |-> Get(MetaFor(ps[i], dir))]]

IdleSave == [pdf_bytes |-> <<>>, fname |-> <<>>, created |-> 0, before |-> {}]

CompletedNames == {completed[i].fname : i \in DOMAIN completed}

StoreInit ==
    /\ now = 0
    /\ vdir = <<>>
    /\ usedUids = {}
    /\ spc = [s \in Sessions |-> "idle"]
    /\ sinv = [s \in Sessions |-> IdleSave]
    /\ completed = <<>>
    /\ listed = None
    /\ got = None

\* The versions block of one script run (lines 427-436) is followed as a unit:
\* the other sessions step before it lists and after it ends.
NoRunFollowed == listed = None

\* Time passes.
Tick ==
    /\ NoRunFollowed
    /\ now < MaxClock
    /\ now' = now + 1
    /\ UNCHANGED <<vdir, usedUids, spc, sinv, completed, listed, got>>
    /\ UNCHANGED exceptStore

\* Lines 203-210: the name is built and write_bytes opens the file, which creates
\* or truncates it.
OpenArtifact(s) ==
    /\ NoRunFollowed
    /\ spc[s] = "idle"
    /\ Cardinality(usedUids) < MaxSaves
    /\ \E pdf_bytes \in PdfBytes, version_tag \in StoreTags :
         LET uid == uuid4(usedUids)
             fname == filename(version_tag, uid)
         IN /\ usedUids' = usedUids \cup {uid}
            /\ vdir' = With(vdir, fname, [content |-> <<>>, mtime |-> now])
            /\ sinv' = [sinv EXCEPT ![s] =
                          [pdf_bytes |-> pdf_bytes, fname |-> fname, created |-> 0,
                           before |-> CompletedNames]]
    /\ spc' = [spc EXCEPT ![s] = "opened"]
    /\ UNCHANGED <<now, completed, listed, got>>
    /\ UNCHANGED exceptStore

\* Line 210: write_bytes writes the bytes and closes the file.
WriteArtifact(s) ==
    /\ NoRunFollowed
    /\ spc[s] = "opened"
    /\ vdir' = With(vdir, sinv[s].fname, [content |-> sinv[s].pdf_bytes, mtime |-> now])
    /\ spc' = [spc EXCEPT ![s] = "written"]
    /\ UNCHANGED <<now, usedUids, sinv, completed, listed, got>>
    /\ UNCHANGED exceptStore

\* Lines 212-217: the record is built and write_text opens the sidecar.
OpenSidecar(s) ==
    /\ NoRunFollowed
    /\ spc[s] = "written"
    /\ vdir' = With(vdir, meta_path(sinv[s].fname), [content |-> None])
    /\ sinv' = [sinv EXCEPT ![s].created = now]
    /\ spc' = [spc EXCEPT ![s] = "sidecar"]
    /\ UNCHANGED <<now, usedUids, completed, listed, got>>
    /\ UNCHANGED exceptStore

\* Lines 217-218: write_text writes the JSON text; save_version returns.
WriteSidecar(s) ==
    /\ NoRunFollowed
    /\ spc[s] = "sidecar"
    /\ vdir' = With(vdir, meta_path(sinv[s].fname),
                    [content |-> Some(meta(sinv[s].fname, sinv[s].created, sinv[s].pdf_bytes))])
    /\ completed' = Append(completed, sinv[s])
    /\ sinv' = [sinv EXCEPT ![s] = IdleSave]
    /\ spc' = [spc EXCEPT ![s] = "idle"]
    /\ UNCHANGED <<now, usedUids, listed, got>>
    /\ UNCHANGED exceptStore

\* Line 427: a session that is not saving lists the versions. quiet and count
\* record whether a save_version was running, and how many had returned, as it
\* listed.
ListVersions ==
    /\ listed = None
    /\ \E glob \in Orders(GlobPdf(vdir)) :
         LET r == list_versions(vdir, glob) IN
         listed' = Some([raised |-> r.raised, items |-> r.items,
                         quiet |-> \A t \in Sessions : spc[t] = "idle",
                         count |-> Len(completed)])
    /\ UNCHANGED <<now, vdir, usedUids, spc, sinv, completed, got>>
    /\ UNCHANGED exceptStore

\* Lines 429-436: each listed artifact is opened and read for its download button.
ReadForDownload ==
    /\ IsSome(listed)
    /\ ~Get(listed).raised
    /\ got = None
    /\ LET items == Get(listed).items IN
         got' = Some([i \in DOMAIN items |-> vdir[items[i].filename].content])
    /\ UNCHANGED <<now, vdir, usedUids, spc, sinv, completed, listed>>
    /\ UNCHANGED exceptStore

\* The script run ends; its listing is gone.
EndRun ==
    /\ IsSome(listed)
    /\ Get(listed).raised \/ IsSome(got)
    /\ listed' = None
    /\ got' = None
    /\ UNCHANGED <<now, vdir, usedUids, spc, sinv, completed>>
    /\ UNCHANGED exceptStore

----------------------------------------------------------------------------
(* The filename of save_version, for every tag *)

\* The sequences over S of length n, and of length at most n.
SeqsOfLen(S, n) == [1..n -> S]
SeqsUpTo(S, n) == UNION {SeqsOfLen(S, k) : k \in 0..n}

ExampleTag == <<"a", "/", "b", " ", "c", "!">>

\* version_tag: None, or a string.
VersionTags == {None} \cup {Some(t) : t \in SeqsUpTo(Alphabet, MaxTagLen) \cup {ExampleTag}}

NameInit ==
    /\ ntag \in VersionTags
    /\ nuid \in {UidNames[1], UidNames[2]}
    /\ nname = None

\* Lines 203-208.
BuildFilename ==
    /\ nname = None
    /\ nname' = Some(filename(ntag, nuid))
    /\ UNCHANGED <<ntag, nuid>>
    /\ UNCHANGED exceptName

----------------------------------------------------------------------------
(* Claims about save_version and list_versions *)

\* The save_version call, returned, that made the file f.
SaveOf(f) == completed[CHOOSE i \in DOMAIN completed : completed[i].fname = f]

\* The bytes save_version was called with for the file f, returned or not.
Intended(f) ==
    IF f \in CompletedNames THEN SaveOf(f).pdf_bytes
    ELSE sinv[CHOOSE s \in Sessions : spc[s] # "idle" /\ sinv[s].fname = f].pdf_bytes

\* The listing named one record per returned save_version, and nothing else.
OneRecordPerSave(l) ==
    /\ ~l.raised
    /\ Len(l.items) = l.count
    /\ {l.items[i].filename : i \in DOMAIN l.items} = CompletedNames

\* C3 as claimed: listing after N returned saves (none running), from an empty
\* directory, gives exactly N records, one per artifact, and no record of an
\* earlier save stands before the record of a save that began after it returned.
C3_ListedInSaveOrder ==
    (IsSome(listed) /\ Get(listed).quiet) =>
        LET l == Get(listed) IN
        /\ OneRecordPerSave(l)
        /\ \A i, j \in DOMAIN l.items :
              i < j => l.items[i].filename \notin SaveOf(l.items[j].filename).before

\* C3 as amended: listing after N returned saves (none running), from an empty
\* directory, gives exactly N records, one per artifact, in the order of
\* non-increasing modification time of the artifact files.
C3_ListedByMtime ==
    (IsSome(listed) /\ Get(listed).quiet) =>
        LET l == Get(listed) IN
        /\ OneRecordPerSave(l)
        /\ \A i, j \in DOMAIN l.items :
              i < j => vdir[l.items[i].filename].mtime >= vdir[l.items[j].filename].mtime

\* C3 witness: two saves at different times were listed, the later one first.
C3_Witness ==
    /\ IsSome(listed)
    /\ Get(listed).quiet
    /\ Len(Get(listed).items) = 2
    /\ Get(listed).items[2].filename \in SaveOf(Get(listed).items[1].filename).before
    /\ vdir[Get(listed).items[1].filename].mtime > vdir[Get(listed).items[2].filename].mtime

\* The characters a tag keeps.
IsAllowed(c) == c \in {"a", "b", "c", "1", "-", "_"}

\* C4: for a tag that is a non-empty string the filename is resume_<tag'>_<uuid>.pdf,
\* tag' being the tag's alphanumeric, hyphen and underscore characters in their
\* order ('a/b c!' gives 'abc'); with no tag (None, or the empty string) it is
\* resume_<uuid>.pdf.
C4_FilenameForm ==
    IsSome(nname) =>
        /\ (IsSome(ntag) /\ Get(ntag) # <<>>) =>
              Get(nname) = <<"resume_">> \o SelectSeq(Get(ntag), IsAllowed) \o <<"_", nuid, ".pdf">>
        /\ (ntag = None \/ ntag = Some(<<>>)) => Get(nname) = <<"resume_", nuid, ".pdf">>
        /\ ntag = Some(ExampleTag) =>
              Get(nname) = <<"resume_", "a", "b", "c", "_", nuid, ".pdf">>

\* C4 witness: a filename was built for a tag of which an underscore is kept and
\* another character dropped.
C4_Witness ==
    /\ IsSome(nname)
    /\ ntag = Some(<<"_", "/">>)
    /\ Get(nname) = <<"resume_", "_", "_", nuid, ".pdf">>

\* C5: for every save_version(pdf_bytes, tag) that returned, the directory holds
\* <filename> with exactly pdf_bytes and <filename>.json whose filename field is
\* <filename> and whose size_bytes is len(pdf_bytes); this stays so through every
\* later save, finished or not.
C5_PairWrittenAndKept ==
    \A i \in DOMAIN completed :
        LET c == completed[i] IN
        /\ c.fname \in DOMAIN vdir
        /\ vdir[c.fname].content = c.pdf_bytes
        /\ meta_path(c.fname) \in DOMAIN vdir
        /\ IsSome(vdir[meta_path(c.fname)].content)
        /\ Get(vdir[meta_path(c.fname)].content).filename = c.fname
        /\ Get(vdir[meta_path(c.fname)].content).size_bytes = Len(c.pdf_bytes)

\* C5 witness: two saves with the same tag and different bytes have returned.
C5_Witness ==
    /\ Len(completed) = 2
    /\ Len(completed[1].fname) = 7
    /\ Len(completed[2].fname) = 7
    /\ completed[1].pdf_bytes # completed[2].pdf_bytes

\* C6 as claimed: every record a list_versions returns, whatever another session's
\* save_version is doing, carries the full length of its artifact as size_bytes,
\* and the bytes read for its download are the artifact's full bytes.
C6_NoPartialArtifactSeen ==
    (IsSome(listed) /\ ~Get(listed).raised) =>
        \A i \in DOMAIN Get(listed).items :
            LET r == Get(listed).items[i] IN
            /\ r.size_bytes = Len(Intended(r.filename))
            /\ IsSome(got) => Get(got)[i] = Intended(r.filename)

----------------------------------------------------------------------------
(* process_resume *)

\* Bound of the pipeline model: the invocations of process_resume followed.
MaxRuns == 2

DEEPSEEK_MODEL == "tngtech/deepseek-r1t2-chimera:free"
FORMATTING_MODEL == "moonshotai/kimi-k2:free"

RawTexts == {"cv text 1", "cv text 2"}
\* response.choices[0].message.content: a text, or None.
NoContent == "<None>"
Completions == {"completion 1", "completion 2", NoContent}
ExtractErrors == {"PdfReadError"}
RemoteErrors == {"APIConnectionError"}

\* f"{x}"
Str(x) == IF x = NoContent THEN "None" ELSE x

CleanInstruction == "You are a resume assistant. Clean and extract ..."
FormatInstruction == "You are a professional resume formatter. Convert ..."

deepseek_prompt(raw_text) == <<CleanInstruction, Str(raw_text)>>

formatting_prompt(cleaned_resume) == <<FormatInstruction, Str(cleaned_resume)>>

html_path == "final_resume.html"

\* A handler that calls again: control stays where the call is issued.
RetryAfterRaise(at) == at

\* except Exception as e: return ...: control leaves process_resume.
AfterRaise(at) == "returned"

\* return f"[Error] Failed to generate resume: {str(e)}", None
ErrorResult(e) == [out |-> <<"[Error] Failed to generate resume: ", e>>, path |-> None]

IdleRun ==
    [raw_text |-> "", calls |-> <<>>, cleaned_resume |-> "", html_resume |-> "",
     failed |-> "", ret |-> None, wrote |-> FALSE, file0 |-> None]

PipeInit ==
    /\ ppc = "idle"
    /\ pinv = IdleRun
    /\ pfile = None
    /\ pruns = 0

\* Line 41: read_pdf returns the text of the pages, or raises.
ReadPdf ==
    /\ ppc = "idle"
    /\ pruns < MaxRuns
    /\ pruns' = pruns + 1
    /\ \/ \E t \in RawTexts :
            /\ pinv' = [IdleRun EXCEPT !.raw_text = t, !.file0 = pfile]
            /\ ppc' = "extracted"
       \/ \E e \in ExtractErrors :
            /\ pinv' = [IdleRun EXCEPT !.failed = "extract", !.file0 = pfile,
                                       !.ret = Some(ErrorResult(e))]
            /\ ppc' = AfterRaise("idle")
    /\ UNCHANGED pfile
    /\ UNCHANGED exceptPipe

\* Lines 44-49: the cleaning call returns a completion, or raises.
CallClean ==
    /\ ppc = "extracted"
    /\ LET call == [model |-> DEEPSEEK_MODEL, prompt |-> deepseek_prompt(pinv.raw_text)] IN
       \/ \E c \in Completions :
            /\ pinv' = [pinv EXCEPT !.calls = Append(@, call), !.cleaned_resume = c]
            /\ ppc' = "cleaned"
       \/ \E e \in RemoteErrors :
            /\ pinv' = [pinv EXCEPT !.calls = Append(@, call), !.failed = "clean",
                                    !.ret = Some(ErrorResult(e))]
            /\ ppc' = AfterRaise("extracted")
    /\ UNCHANGED <<pfile, pruns>>
    /\ UNCHANGED exceptPipe

\* Lines 52-57: the formatting call returns a completion, or raises.
CallFormat ==
    /\ ppc = "cleaned"
    /\ LET call == [model |-> FORMATTING_MODEL,
                    prompt |-> formatting_prompt(pinv.cleaned_resume)] IN
       \/ \E c \in Completions :
            /\ pinv' = [pinv EXCEPT !.calls = Append(@, call), !.html_resume = c]
            /\ ppc' = "formatted"
       \/ \E e \in RemoteErrors :
            /\ pinv' = [pinv EXCEPT !.calls = Append(@, call), !.failed = "format",
                                    !.ret = Some(ErrorResult(e))]
            /\ ppc' = AfterRaise("cleaned")
    /\ UNCHANGED <<pfile, pruns>>
    /\ UNCHANGED exceptPipe

\* Lines 60-64: the file is opened for writing (and so emptied) and the text
\* written; f.write(None) raises TypeError, which leaves the file empty.
SaveHtml ==
    /\ ppc = "formatted"
    /\ IF pinv.html_resume = NoContent
       THEN /\ pfile' = Some("")
            /\ pinv' = [pinv EXCEPT !.wrote = TRUE, !.failed = "write",
                                    !.ret = Some(ErrorResult("TypeError"))]
       ELSE /\ pfile' = Some(pinv.html_resume)
            /\ pinv' = [pinv EXCEPT !.wrote = TRUE,
                                    !.ret = Some([out |-> <<pinv.html_resume>>,
                                                  path |-> Some(html_path)])]
    /\ ppc' = "returned"
    /\ UNCHANGED pruns
    /\ UNCHANGED exceptPipe

\* Lines 72-74: gradio_interface hands the pair to the interface.
ShowResult ==
    /\ ppc = "returned"
    /\ ppc' = "idle"
    /\ pinv' = IdleRun
    /\ UNCHANGED <<pfile, pruns>>
    /\ UNCHANGED exceptPipe

----------------------------------------------------------------------------
(* Claims about process_resume *)

\* C7: the formatting call is issued only after the cleaning call returned, with a
\* prompt that contains the cleaning call's output; each remote call is issued at
\* most once; when read_pdf or a remote call raises, process_resume returns a text
\* beginning "[Error] Failed to generate resume:" with a None path, no later call
\* is issued, and the invocation has not written the output file.
C7_SequentialCallsSingleError ==
    LET calls == pinv.calls IN
    /\ Len(calls) <= 2
    /\ Len(calls) >= 1 => calls[1].model = DEEPSEEK_MODEL
    /\ Len(calls) = 2 =>
          /\ calls[2].model = FORMATTING_MODEL
          /\ ppc \in {"formatted", "returned"}
          /\ pinv.failed \notin {"extract", "clean"}
          /\ Contains(calls[2].prompt, Str(pinv.cleaned_resume))
    /\ pinv.failed \in {"extract", "clean", "format"} =>
          /\ ppc = "returned"
          /\ IsSome(pinv.ret)
          /\ Get(pinv.ret).path = None
          /\ Len(Get(pinv.ret).out) = 2
          /\ Get(pinv.ret).out[1] = "[Error] Failed to generate resume: "
          /\ Len(calls) = (CASE pinv.failed = "extract" -> 0
                             [] pinv.failed = "clean" -> 1
                             [] pinv.failed = "format" -> 2)
          /\ ~pinv.wrote
          /\ pfile = pinv.file0

\* C7 witness: the formatting call of a second invocation raised; the file of the
\* first invocation is as that invocation left it.
C7_Witness ==
    /\ ppc = "returned"
    /\ pinv.failed = "format"
    /\ pinv.cleaned_resume = "completion 2"
    /\ pfile = Some("completion 1")

----------------------------------------------------------------------------
(* The script run of the resume editor *)

\* Bound of the editor model: the experience entries a document can have.
MaxExperience == 3

\* Documents, by the fields the form changes: the name and the experience entries.
Names == {"Ada Lovelace", "Grace Hopper"}
Docs == [name : Names, nexp : 2..MaxExperience]

\* ResumeData()
DefaultDoc == [name |-> "Ada Lovelace", nexp |-> 2]

\* JSON texts: the dump of a document, a text a user typed for a document, a
\* JSON object that is no ResumeData, a JSON value that is no object, and a text
\* that is no JSON.
Typed(doc) == [kind |-> "document", doc |-> doc, dumped |-> FALSE]
SchemaInvalid == [kind |-> "schema_invalid", doc |-> DefaultDoc, dumped |-> FALSE]
NotAnObject == [kind |-> "not_an_object", doc |-> DefaultDoc, dumped |-> FALSE]
Unparseable == [kind |-> "unparseable", doc |-> DefaultDoc, dumped |-> FALSE]
UserJson ==
    {Typed(d) : d \in {x \in Docs : x.nexp = 2}} \cup {SchemaInvalid, NotAnObject, Unparseable}

\* model.model_dump_json(indent=2)
model_dump_json(doc) == [kind |-> "document", doc |-> doc, dumped |-> TRUE]

\* ResumeData(**json.loads(text)): the document, or the exception raised.
ParseResumeData(text) ==
    [exc |-> CASE text.kind = "unparseable" -> Some("JSONDecodeError")
               [] text.kind = "not_an_object" -> Some("TypeError")
               [] text.kind = "schema_invalid" -> Some("ValidationError")
               [] OTHER -> None,
     doc |-> text.doc]

\* str(ve)
ValidationMessage == "1 validation error for ResumeData"

\* Templates: the default, one a user wrote, one Jinja2 cannot parse.
DEFAULT_TEX == "DEFAULT_TEX"
BrokenTemplate == "{% for %}"
Templates == {DEFAULT_TEX, "\\documentclass{article} {{ data.name }}", BrokenTemplate}

\* render_template_tex: the rendered text, or the exception Template() raises.
render_template_tex(data, template_text) ==
    IF template_text = BrokenTemplate
    THEN [exc |-> Some("TemplateSyntaxError"), tex |-> <<>>]
    ELSE [exc |-> None, tex |-> <<template_text, data.name, data.nexp>>]

\* A handler that catches nothing.
PreviewCatchesNothing(exc) == FALSE

\* Lines 367-372: except ValidationError
PreviewCatches(exc) == exc = "ValidationError"

\* Lines 269-274 kept as the text was: no reset.
FormLoadKeeps(text) == text

\* Lines 269-274: the stored JSON as the form takes it; any exception resets it.
FormLoad(text) ==
    IF IsSome(ParseResumeData(text).exc) THEN model_dump_json(DefaultDoc) ELSE text

\* What the engine does in one compile of the editor.
EngineBehaviours ==
    {[raised |-> FALSE, e |-> "", rc |-> 0, out |-> <<"This is TeX">>, pdf |-> Some(<<37>>)],
     [raised |-> FALSE, e |-> "", rc |-> 0, out |-> <<"This is TeX">>, pdf |-> Some(<<37, 80>>)],
     [raised |-> FALSE, e |-> "", rc |-> 1, out |-> <<"! LaTeX Error">>, pdf |-> None]}

\* compile_tex_to_pdf(tex_source), from call to return.
compile_tex_to_pdf(tex_source, inst, beh) ==
    IF UsedEngine(inst) = None THEN NoEngineResult
    ELSE IF beh.raised THEN Get(OnSubprocessError(beh.e).ret)
    ELSE ProcResult(beh.rc, beh.out, EngineFiles([f \in {"main.tex"} |-> tex_source], beh.pdf))

\* save_version(pdf_bytes, version_tag), from call to return, on the directory.
SavedDir(dir, uid, t, pdf_bytes, version_tag) ==
    LET fname == filename(version_tag, uid) IN
    With(With(dir, fname, [content |-> pdf_bytes, mtime |-> t]),
         meta_path(fname), [content |-> Some(meta(fname, t, pdf_bytes))])

\* Lines 258-261: the session state of a new session.
NewSession ==
    [template_text |-> DEFAULT_TEX,
     data_json |-> model_dump_json(DefaultDoc),
     auto_compile_once |-> None,
     last_pdf |-> None,
     last_log |-> None]

NoView ==
    [escaped |-> None, shown |-> {}, did |-> {}, found |-> model_dump_json(DefaultDoc),
     message |-> None, button |-> "none"]

\* No script run has drawn the page yet: the first run of a session has the
\* widgets' initial values (mode Form, line 248; no button pressed).
FirstRun == view = NoView

\* The versions block (lines 425-438) at the end of a run whose view so far is v:
\* list_versions raising ends the run.
VersionsBlock(v, dir) ==
    IF ListingRaises(dir)
    THEN [v EXCEPT !.escaped = Some("JSONDecodeError"), !.did = @ \cup {"list"}]
    ELSE [v EXCEPT !.shown = @ \cup {"versions"}, !.did = @ \cup {"list"}]

\* The right column and the versions block (lines 363-438) of one script run, on
\* the session state s the left column left. button is the button pressed, if
\* any; uid and t are what uuid4 and the clock give a save. The result: the
\* session state, the view, the directory, and the bytes saved, if any.
RightColumn(s, found, button, beh, dir, version_tag, uid, t) ==
    LET parsed == ParseResumeData(s.data_json)
        base == [NoView EXCEPT !.found = found, !.button = button]
    IN
    IF IsSome(parsed.exc) /\ ~PreviewCatches(Get(parsed.exc))
    THEN [session |-> s, view |-> [base EXCEPT !.escaped = parsed.exc], dir |-> dir,
          saved |-> None]
    ELSE IF IsSome(parsed.exc)
    THEN [session |-> s,
          view |-> VersionsBlock(
                      [base EXCEPT !.shown = {"Data validation error. Fix your JSON fields.",
                                              "validation message"},
                                   !.message = Some(ValidationMessage)], dir),
          dir |-> dir,
          saved |-> None]
    ELSE
    LET rendered == render_template_tex(parsed.doc, s.template_text) IN
    IF IsSome(rendered.exc)
    THEN [session |-> s, view |-> [base EXCEPT !.escaped = rendered.exc, !.did = {"render"}],
          dir |-> dir, saved |-> None]
    ELSE
    LET should_compile == button = "compile" \/ s.auto_compile_once = None
        result == compile_tex_to_pdf(rendered.tex, installed, beh)
        s2 == IF should_compile
              THEN [s EXCEPT !.auto_compile_once = Some(TRUE),
                             !.last_pdf = Some(result.pdf),
                             !.last_log = Some(result.log)]
              ELSE s
        \* st.session_state.get("_last_pdf"): None when the key is not set
        pdf_bytes == IF IsSome(s2.last_pdf) THEN Get(s2.last_pdf) ELSE None
        has_pdf == IsSome(pdf_bytes) /\ Get(pdf_bytes) # <<>>
        saving == has_pdf /\ button = "save"
        dir2 == IF saving THEN SavedDir(dir, uid, t, Get(pdf_bytes), version_tag) ELSE dir
    IN [session |-> s2,
        view |-> VersionsBlock(
                    [base EXCEPT
                       !.shown = {"generated LaTeX", "Compiler Log"}
                                 \cup (IF has_pdf THEN {"pdf", "Save Version", "Download PDF"}
                                       ELSE {"No PDF yet"})
                                 \cup (IF saving THEN {"Saved"} ELSE {}),
                       !.did = {"render"}
                               \cup (IF should_compile THEN {"compile"} ELSE {})
                               \cup (IF saving THEN {"save"} ELSE {})], dir2),
        dir |-> dir2,
        saved |-> IF saving THEN pdf_bytes ELSE None]

\* The identifier the next uuid4 call returns.
NextUid == IF Uids \ usedUids = {} THEN UidNames[1] ELSE uuid4(usedUids)

\* The outcome of a script run put into the state: the session state, the view,
\* and the directory; a save is recorded as the returned call it is.
Outcome(m, r, version_tag) ==
    /\ mode' = m
    /\ session' = r.session
    /\ view' = r.view
    /\ vdir' = r.dir
    /\ IF IsSome(r.saved)
       THEN /\ usedUids' = usedUids \cup {NextUid}
            /\ completed' = Append(completed,
                                   [pdf_bytes |-> Get(r.saved),
                                    fname |-> filename(version_tag, NextUid),
                                    created |-> now, before |-> CompletedNames])
       ELSE UNCHANGED <<usedUids, completed>>
    /\ UNCHANGED <<now, spc, sinv, listed, got>>
    /\ UNCHANGED <<compileVars, nameVars, pipeVars>>

\* The buttons that can be pressed: Save Version when the last run drew it.
Buttons ==
    {"none", "compile"} \cup
    (IF "Save Version" \in view.shown /\ Cardinality(usedUids) < MaxSaves THEN {"save"} ELSE {})

\* The engine behaviours that matter to a run: all when it compiles.
Behaviours(button) ==
    IF button = "compile" \/ session.auto_compile_once = None
    THEN EngineBehaviours
    ELSE {CHOOSE b \in EngineBehaviours : TRUE}

\* Line 251: the tag field holds a text, empty when nothing was typed. The tags
\* that matter to a run: both when Save Version is pressed.
TagsFor(button) ==
    IF button = "save" THEN {Some(<<>>), Some(<<"a", "/", "b", " ", "c", "!">>)}
    ELSE {Some(<<>>)}

\* A script run in Form mode (lines 266-347, then the right column): the stored
\* JSON is loaded, reset if it does not load, and replaced by the dump of what
\* the form fields hold.
RunForm ==
    \E name \in Names, button \in Buttons :
      \E beh \in Behaviours(button), version_tag \in TagsFor(button) :
        LET loaded == FormLoad(session.data_json)
            model == ParseResumeData(loaded).doc
            updated == [model EXCEPT !.name = name]
            s1 == [session EXCEPT !.data_json =
                     IF IsSome(ParseResumeData(loaded).exc) THEN loaded
                     ELSE model_dump_json(updated)]
        IN /\ FirstRun => (button = "none" /\ name = model.name)
           /\ Outcome("Form",
                      RightColumn(s1, session.data_json, button, beh, vdir, version_tag,
                                  NextUid, now),
                      version_tag)

\* A script run in Form mode in which Add Experience was pressed (lines 302-307):
\* the entry is appended, the JSON dumped, and the script run again from the top.
\* (Add Education, lines 324-329, is the same code on the education entries.)
RunAddExperience ==
    \E beh \in Behaviours("none") :
        /\ mode = "Form"
        /\ ~FirstRun
        /\ LET loaded == FormLoad(session.data_json)
               model == ParseResumeData(loaded).doc
               added == [model EXCEPT !.nexp = @ + 1]
               s1 == [session EXCEPT !.data_json = model_dump_json(added)]
           IN /\ model.nexp < MaxExperience
              /\ Outcome("Form",
                         RightColumn(s1, session.data_json, "none", beh, vdir, Some(<<>>),
                                     NextUid, now),
                         Some(<<>>))

\* A script run in Raw LaTeX mode (lines 350-361, then the right column): the
\* template and the JSON are what the two text areas hold.
RunRaw ==
    \E template_text \in Templates \cup {session.template_text},
       text \in UserJson \cup {session.data_json},
       button \in Buttons :
      \E beh \in Behaviours(button), version_tag \in TagsFor(button) :
        LET s1 == [session EXCEPT !.template_text = template_text, !.data_json = text]
        IN /\ ~FirstRun
           /\ Outcome("Raw LaTeX",
                      RightColumn(s1, text, button, beh, vdir, version_tag, NextUid, now),
                      version_tag)

EditorInit ==
    /\ mode = "Form"
    /\ session = NewSession
    /\ view = NoView
    /\ installed \in {{}, {"xelatex", "pdflatex"}}

----------------------------------------------------------------------------
(* Claims about the script run of the resume editor *)

ValidationErrorShown ==
    /\ "Data validation error. Fix your JSON fields." \in view.shown
    /\ "validation message" \in view.shown
    /\ view.message = Some(ValidationMessage)

\* C8 as claimed: no script run ends with an exception escaping it, whatever the
\* user typed as JSON or template, in whatever mode, whatever button was pressed.
C8_NoExceptionEscapes == view.escaped = None

\* C9 as claimed: a run that finds the stored document JSON failing schema
\* validation shows the validation error with its message, does no render,
\* compile or save, and leaves the document JSON as it found it, in both modes.
C9_InvalidJsonShownAndKept ==
    view.found.kind = "schema_invalid" =>
        /\ ValidationErrorShown
        /\ view.did \cap {"render", "compile", "save"} = {}
        /\ session.data_json = view.found

\* C9 as amended: in Raw LaTeX mode a run that finds the document JSON failing
\* schema validation shows the validation error with its message, does no
\* render, compile or save, and leaves the JSON as typed; in Form mode a run that
\* finds stored JSON that does not load replaces it by the dump of a document
\* with the default entries, shows no validation error, and goes on to render.
C9_InvalidJsonShownInRawResetInForm ==
    /\ (mode = "Raw LaTeX" /\ view.found.kind = "schema_invalid") =>
          /\ ValidationErrorShown
          /\ view.escaped = None
          /\ view.did \cap {"render", "compile", "save"} = {}
          /\ session.data_json = view.found
    /\ (mode = "Form" /\ view.found.kind # "document") =>
          /\ session.data_json.kind = "document"
          /\ session.data_json.dumped
          /\ session.data_json.doc.nexp \in {DefaultDoc.nexp, DefaultDoc.nexp + 1}
          /\ ~ValidationErrorShown
          /\ view.message = None
          /\ "render" \in view.did

\* C9 witness: a session that holds a compiled PDF ran in Raw LaTeX mode with
\* JSON that fails schema validation.
C9_Witness ==
    /\ mode = "Raw LaTeX"
    /\ view.found = SchemaInvalid
    /\ ValidationErrorShown
    /\ IsSome(session.last_pdf)
    /\ IsSome(Get(session.last_pdf))

\* Lines 382-407 seen from outside, as a step from the session state before a
\* script run to the one after it.

\* The LaTeX source the run rendered from the session's data and template.
RunTex == render_template_tex(ParseResumeData(session'.data_json).doc,
                              session'.template_text).tex

\* The run had valid data: line 368 built the ResumeData.
RunHadValidData == ParseResumeData(session'.data_json).exc = None

\* The run called compile_tex_to_pdf (line 385).
RunCompiled == "compile" \in view'.did

\* The Compile button was pressed or no compile has yet run in the session.
CompileAsked == view'.button = "compile" \/ session.auto_compile_once = None

\* The held pair is one compile's result: a run that compiles holds both values
\* of that one result, a run that does not compile leaves the pair as it was.
HeldPairFromLastCompile ==
    /\ RunCompiled =>
          \E beh \in EngineBehaviours :
              LET result == compile_tex_to_pdf(RunTex, installed, beh)
              IN /\ session'.last_pdf = Some(result.pdf)
                 /\ session'.last_log = Some(result.log)
                 /\ session'.auto_compile_once = Some(TRUE)
    /\ ~RunCompiled =>
          /\ session'.last_pdf = session.last_pdf
          /\ session'.last_log = session.last_log
          /\ session'.auto_compile_once = session.auto_compile_once

\* Save Version persists the held artifact, which is not None.
SavePersistsHeldArtifact ==
    "save" \in view'.did =>
        /\ IsSome(session'.last_pdf) /\ IsSome(Get(session'.last_pdf))
        /\ Len(completed') = Len(completed) + 1
        /\ Last(completed').pdf_bytes = Get(Get(session'.last_pdf))
        /\ vdir'[Last(completed').fname].content = Get(Get(session'.last_pdf))

\* Save Version is offered only while an artifact is held.
SaveOfferedOnlyWithArtifact ==
    "Save Version" \in view.shown =>
        /\ IsSome(session.last_pdf) /\ IsSome(Get(session.last_pdf))
        /\ IsSome(session.last_log)

\* C11 as claimed: the held artifact and the held log come from the same, most
\* recent compile of the session; a script run with valid data compiles exactly
\* when the Compile button was pressed or no compile has yet run in the session;
\* after a failed compile the held artifact is None, so Save Version only ever
\* persists the artifact of the most recent compile.
C11_HeldPairAndCompileOnDemand ==
    /\ []SaveOfferedOnlyWithArtifact
    /\ [][/\ HeldPairFromLastCompile
          /\ SavePersistsHeldArtifact
          /\ RunHadValidData => (RunCompiled <=> CompileAsked)]_vars

\* What stays true of lines 382-407 with the render failure in the picture: a run
\* that compiles had valid data and was asked to, a run with valid data whose
\* template renders compiles exactly when asked, and the held pair and the save
\* are as claimed.
CompileOnDemandWhenRendered ==
    /\ []SaveOfferedOnlyWithArtifact
    /\ [][/\ HeldPairFromLastCompile
          /\ SavePersistsHeldArtifact
          /\ RunCompiled => (RunHadValidData /\ CompileAsked)
          /\ (RunHadValidData /\ view'.escaped # Some("TemplateSyntaxError"))
                => (RunCompiled <=> CompileAsked)]_vars

----------------------------------------------------------------------------
(* Specifications *)

CompileIdle ==
    /\ installed = {}
    /\ tmpfs = <<>>
    /\ nextDir = 1
    /\ cpc = [c \in Callers |-> "idle"]
    /\ cinv = [c \in Callers |-> IdleInvocation]

NameIdle ==
    /\ ntag = None
    /\ nuid = UidNames[1]
    /\ nname = None

EditorIdle ==
    /\ mode = "Form"
    /\ session = NewSession
    /\ view = NoView

InitCompile == CompileInit /\ StoreInit /\ NameIdle /\ PipeInit /\ EditorIdle
NextCompile ==
    \E c \in Callers :
        \/ EnterTempDir(c)
        \/ SelectEngine(c)
        \/ RunEngineReturns(c)
        \/ RunEngineRaises(c)
        \/ ReturnResult(c)
        \/ ExitTempDir(c)
        \/ TakeResult(c)
SpecCompile == InitCompile /\ [][NextCompile]_vars

InitStore == StoreInit /\ CompileIdle /\ NameIdle /\ PipeInit /\ EditorIdle
NextStore ==
    \/ Tick
    \/ ListVersions
    \/ ReadForDownload
    \/ EndRun
    \/ \E s \in Sessions :
        \/ OpenArtifact(s)
        \/ WriteArtifact(s)
        \/ OpenSidecar(s)
        \/ WriteSidecar(s)
SpecStore == InitStore /\ [][NextStore]_vars

InitFilename == NameInit /\ CompileIdle /\ StoreInit /\ PipeInit /\ EditorIdle
NextFilename == BuildFilename
SpecFilename == InitFilename /\ [][NextFilename]_vars

InitPipeline == PipeInit /\ CompileIdle /\ StoreInit /\ NameIdle /\ EditorIdle
NextPipeline ==
    \/ ReadPdf
    \/ CallClean
    \/ CallFormat
    \/ SaveHtml
    \/ ShowResult
SpecPipeline == InitPipeline /\ [][NextPipeline]_vars

CompileAtRest ==
    /\ tmpfs = <<>>
    /\ nextDir = 1
    /\ cpc = [c \in Callers |-> "idle"]
    /\ cinv = [c \in Callers |-> IdleInvocation]

InitEditor == EditorInit /\ CompileAtRest /\ StoreInit /\ NameIdle /\ PipeInit
NextEditor ==
    \/ RunForm
    \/ RunAddExperience
    \/ RunRaw
SpecEditor == InitEditor /\ [][NextEditor]_vars

====
